---------------------------- MODULE Spec2Model ----------------------------
(***************************************************************************)
(* State-space search (lab1: BFSAgent, DFSAgent, lab2: astar) and          *)
(* Horn-clause inference (lab10: KB, ForwardChainingReasoner,              *)
(* BackwardChainingReasoner) of the AI-labs notebooks, as state machines.  *)
(*                                                                         *)
(* Each engine has its own specification (SpecAstar, SpecBFS, SpecDFS,     *)
(* SpecKB, ...); the variables of the engines a specification does not run *)
(* keep their initial values.                                              *)
(***************************************************************************)
EXTENDS Integers, Sequences, FiniteSets, TLC

VARIABLES
    problem,          \* the Problem instance handed to the engine
    pc,               \* where the running engine is
    returned,         \* the value the engine returned
    queue,            \* astar: the PriorityQueue, a set of (f, state, path, g)
    visited_states_with_dist_from_start,  \* astar: dict state -> recorded value
    count,            \* astar: the expansion counter
    queue_of_paths,   \* bfs: deque of (state, path)
    current_state,    \* bfs
    current_path,     \* bfs
    visited_states,   \* bfs
    clauses,          \* KB.clauses: list of (premise, conclusion)
    symbols,          \* KB.symbols
    clause_count,     \* _infer: the dict count, in insertion order
    infer_inferred,   \* _infer: the dict inferred, symbol -> bool
    agenda,           \* _infer: the list agenda
    was_in_agenda,    \* _infer: the set was_in_agenda
    fc_inferred,      \* ForwardChainingReasoner.inferred
    bc_inferred,      \* BackwardChainingReasoner.inferred: symbol -> None/True/False
    to_check,         \* recursive_query: the set shared by the recursion
    stack,            \* recursive_query: the frames of the recursion
    ret,              \* recursive_query: the value just returned
    asked,            \* query: the symbol asked last
    answer,           \* query: the value returned last
    fresh,            \* no query has returned on this reasoner before this one
    do_action_calls,  \* how often the engine has called problem.do_action
    list_of_occured_states,  \* dfs: the states on the current path
    dfs_path,         \* dfs: path, the actions of the current path
    dfs_visited_states,      \* dfs: visited_states
    frames,           \* dfs_recurrence: the for-loop position of each call
    heap,             \* the list and set objects KBs hold, by reference
    kb,               \* the KB kb: references of kb.clauses and kb.symbols
    kb2               \* the KB kb2 = kb.copy(), once it exists

searchVars == <<problem, pc, returned>>
astarVars == <<queue, visited_states_with_dist_from_start, count>>
bfsVars == <<queue_of_paths, current_state, current_path, visited_states>>
kbVars == <<clauses, symbols>>
fcVars == <<clause_count, infer_inferred, agenda, was_in_agenda, fc_inferred>>
bcVars == <<bc_inferred, to_check, stack, ret, asked, answer, fresh>>
reasonerVars == <<kbVars, fcVars, bcVars>>
dfsVars == <<list_of_occured_states, dfs_path, dfs_visited_states, frames>>
copyVars == <<heap, kb, kb2>>
vars == <<searchVars, astarVars, bfsVars, reasonerVars, dfsVars, copyVars,
          do_action_calls>>

\* the values the variables of an engine keep while another engine runs
searchIdle ==
    /\ problem = <<>>
    /\ returned = <<>>
    /\ do_action_calls = 0

astarIdle ==
    /\ queue = {}
    /\ visited_states_with_dist_from_start = <<>>
    /\ count = 0

bfsIdle ==
    /\ queue_of_paths = <<>>
    /\ current_state = 0
    /\ current_path = <<>>
    /\ visited_states = {}

fcIdle ==
    /\ clause_count = <<>>
    /\ infer_inferred = <<>>
    /\ agenda = <<>>
    /\ was_in_agenda = {}
    /\ fc_inferred = {}

bcIdle ==
    /\ bc_inferred = <<>>
    /\ to_check = {}
    /\ stack = <<>>
    /\ ret = "None"
    /\ asked = <<>>
    /\ answer = "None"
    /\ fresh = TRUE

reasonerIdle ==
    /\ clauses = <<>>
    /\ symbols = {}
    /\ fcIdle
    /\ bcIdle

dfsIdle ==
    /\ list_of_occured_states = <<>>
    /\ dfs_path = <<>>
    /\ dfs_visited_states = {}
    /\ frames = <<>>

\* no KB object is referenced: reference 0 is no object
copyIdle ==
    /\ heap = <<>>
    /\ kb = [clauses |-> 0, symbols |-> 0]
    /\ kb2 = [clauses |-> 0, symbols |-> 0]


-----------------------------------------------------------------------------
(* Bounds of the checked instances *)

\* number of states of a generated Problem
NumStates == 3

\* largest action cost and largest heuristic value of a generated Problem
MaxCost == 2

-----------------------------------------------------------------------------
(* The Problem capability: lab1 and lab2, class Problem.  An instance is a *)
(* record of its methods' graphs.  States and actions are integers, which  *)
(* Python orders the way the model does when the priority queue compares   *)
(* two entries.                                                            *)

initial_state(p) == p.initial_state

available_actions(p, state) == p.available_actions

do_action(p, state, action) == p.delta[state][action]

is_goal(p, state) == state \in p.goal

action_cost(p, state, action) == p.action_cost[state][action]

heuristic(p, state) == p.heuristic[state]

\* The instances: a corridor of NumStates positions 0..NumStates-1, the
\* robot of VacuumProblem moving in it.  An action is a displacement, and
\* do_action clamps the position at both walls as VacuumProblem.do_action
\* does for Left and Right.
States == 0 .. (NumStates - 1)

Moves == {-1, 1, 2}

Max(a, b) == IF a >= b THEN a ELSE b

Min(a, b) == IF a <= b THEN a ELSE b

Clamp(s) == Max(Min(s, NumStates - 1), 0)

Range(f) == {f[i] : i \in DOMAIN f}

\* the lists of distinct actions a Problem may enumerate, in every order
ActionLists ==
    {l \in UNION {[1 .. k -> Moves] : k \in 0 .. Cardinality(Moves)} :
        \A i, j \in DOMAIN l : l[i] = l[j] => i = j}

\* per-action costs; an action the Problem does not list costs nothing
CostTables(acts) ==
    {c \in [Moves -> 0 .. MaxCost] : \A m \in Moves \ Range(acts) : c[m] = 0}

GoalSets == {{}} \cup {{g} : g \in States}

CorridorProblem(acts, goal, c, h) ==
    [initial_state |-> 0,
     available_actions |-> acts,
     delta |-> [s \in States |-> [a \in Moves |-> Clamp(s + a)]],
     goal |-> goal,
     action_cost |-> [s \in States |-> c],
     heuristic |-> h]

\* The instances of lab1's Problem, which has neither costs nor a heuristic:
\* every graph on States in which each state has the same two actions, every
\* action costing one step.
GraphActions == <<1, 2>>

GraphProblem(delta, goal) ==
    [initial_state |-> 0,
     available_actions |-> GraphActions,
     delta |-> delta,
     goal |-> goal,
     action_cost |-> [s \in States |-> [a \in Range(GraphActions) |-> 1]],
     heuristic |-> [s \in States |-> 0]]

-----------------------------------------------------------------------------
(* lab2: astar *)

\* Python's order on tuples of actions: the first differing action decides,
\* and a proper prefix is the smaller.
PathLess(p1, p2) ==
    \/ \E i \in 1 .. Min(Len(p1), Len(p2)) :
          /\ p1[i] < p2[i]
          /\ \A j \in 1 .. (i - 1) : p1[j] = p2[j]
    \/ /\ Len(p1) < Len(p2)
       /\ \A j \in 1 .. Len(p1) : p1[j] = p2[j]

\* Python's order on the queue's entries (f, state, path, g)
EntryLess(e1, e2) ==
    \/ e1.f < e2.f
    \/ /\ e1.f = e2.f
       /\ \/ e1.state < e2.state
          \/ /\ e1.state = e2.state
             /\ \/ PathLess(e1.path, e2.path)
                \/ e1.path = e2.path /\ e1.g < e2.g

\* queue.get() on a queue that holds an entry: the least entry
QueueGet(q) == CHOOSE e \in q : \A o \in q \ {e} : EntryLess(e, o)

\* a new_path that misses the action just taken
NewPathWithoutAction(path, action) == path

\* new_path: list(path) with the action appended
NewPath(path, action) == Append(path, action)

\* expected_distance_from_goal of a successor, as line 182 computes it: the
\* heuristic of next_state plus the cost accumulated up to current_state
ExpectedDistance(p, next_state, cumulative_costs, new_cumulative_costs) ==
    heuristic(p, next_state) + cumulative_costs

\* the test of lines 185-192: the successor is recorded and pushed
Improves(visited, next_state, expected) ==
    \/ next_state \notin DOMAIN visited
    \/ expected < visited[next_state]

\* dict update: visited[next_state] = expected
Record(visited, next_state, expected) ==
    [s \in DOMAIN visited \cup {next_state} |->
        IF s = next_state THEN expected ELSE visited[s]]

\* the for loop of lines 176-194 from the i-th available action on, with the
\* queue q and the dict v as they stand; gives the final <<queue, dict>>
RECURSIVE Expand(_, _, _, _, _)
Expand(p, e, i, q, v) ==
    LET acts == available_actions(p, e.state) IN
    IF i > Len(acts) THEN <<q, v>>
    ELSE LET action == acts[i]
             next_state == do_action(p, e.state, action)
             new_path == NewPath(e.path, action)
             new_cumulative_costs == e.g + action_cost(p, e.state, action)
             expected == ExpectedDistance(p, next_state, e.g, new_cumulative_costs)
         IN IF Improves(v, next_state, expected)
            THEN Expand(p, e, i + 1,
                        q \cup {[f |-> expected, state |-> next_state,
                                 path |-> new_path, g |-> new_cumulative_costs]},
                        Record(v, next_state, expected))
            ELSE Expand(p, e, i + 1, q, v)

\* lines 159-166
AstarStart(p) ==
    /\ problem = p
    /\ pc = "astar"
    /\ returned = <<>>
    /\ queue = {[f |-> heuristic(p, initial_state(p)) + 0,
                 state |-> initial_state(p), path |-> <<>>, g |-> 0]}
    /\ visited_states_with_dist_from_start =
           [s \in {initial_state(p)} |-> 0]
    /\ count = 0
    /\ do_action_calls = 0

\* one pass of the while loop that pops a goal: lines 169-174
AstarReturn ==
    /\ pc = "astar"
    /\ queue # {}
    /\ LET e == QueueGet(queue) IN
       /\ is_goal(problem, e.state)
       /\ queue' = queue \ {e}
       /\ returned' = e.path
       /\ pc' = "done"
    /\ UNCHANGED <<problem, visited_states_with_dist_from_start, count, bfsVars,
                   reasonerVars,
                   dfsVars, copyVars, do_action_calls>>

\* one pass of the while loop that expands a state: lines 169-194
AstarExpand ==
    /\ pc = "astar"
    /\ queue # {}
    /\ LET e == QueueGet(queue) IN
       /\ ~is_goal(problem, e.state)
       /\ LET r == Expand(problem, e, 1, queue \ {e},
                          visited_states_with_dist_from_start) IN
          /\ queue' = r[1]
          /\ visited_states_with_dist_from_start' = r[2]
       /\ count' = count + Len(available_actions(problem, e.state))
       /\ do_action_calls' =
              do_action_calls + Len(available_actions(problem, e.state))
    /\ UNCHANGED <<problem, pc, returned, bfsVars, reasonerVars,
                   dfsVars, copyVars>>

\* `while queue:` is true of every PriorityQueue object, so the loop is
\* entered with the queue empty and queue.get() waits for an entry forever
\* (line 169); lines 197-198 are never reached
AstarBlock ==
    /\ pc = "astar"
    /\ queue = {}
    /\ pc' = "blocked"
    /\ UNCHANGED <<problem, returned, astarVars, bfsVars, reasonerVars,
                   dfsVars, copyVars, do_action_calls>>

InitAstar ==
    /\ \E acts \in ActionLists, goal \in GoalSets, h \in [States -> 0 .. MaxCost] :
          \E c \in CostTables(acts) :
             AstarStart(CorridorProblem(acts, goal, c, h))
    /\ bfsIdle
    /\ reasonerIdle
    /\ dfsIdle
    /\ copyIdle

NextAstar ==
    \/ AstarReturn
    \/ AstarExpand
    \/ AstarBlock

SpecAstar == InitAstar /\ [][NextAstar]_vars

\* astar runs to its return or waits in queue.get(); nothing else is scheduled
FairSpecAstar == SpecAstar /\ WF_vars(NextAstar)

-----------------------------------------------------------------------------
(* lab1: BFSAgent.bfs *)

\* a for loop that appends every successor, visited or not
RECURSIVE DiscoverAll(_, _, _, _, _, _)
DiscoverAll(p, state, path, i, q, v) ==
    LET moves == available_actions(p, state) IN
    IF i > Len(moves) THEN <<q, v>>
    ELSE LET move == moves[i]
             new_state == do_action(p, state, move)
         IN DiscoverAll(p, state, path, i + 1,
                        Append(q, [state |-> new_state,
                                   path |-> Append(path, move)]),
                        v \cup {new_state})

\* the for loop of lines 351-360 from the i-th available action on, with the
\* deque q and the set v as they stand; gives the final <<deque, set>>
RECURSIVE Discover(_, _, _, _, _, _)
Discover(p, state, path, i, q, v) ==
    LET moves == available_actions(p, state) IN
    IF i > Len(moves) THEN <<q, v>>
    ELSE LET move == moves[i]
             new_state == do_action(p, state, move)
         IN IF new_state \notin v
            THEN Discover(p, state, path, i + 1,
                          Append(q, [state |-> new_state,
                                     path |-> Append(path, move)]),
                          v \cup {new_state})
            ELSE Discover(p, state, path, i + 1, q, v)

\* a loop that goes on while the deque holds an entry, goal or not
BfsContinuesWhileQueue(p, state, q) == q # <<>>

\* the loop condition of line 349
BfsContinues(p, state, q) == ~is_goal(p, state) /\ q # <<>>

\* lines 340-345
BfsStart(p) ==
    /\ problem = p
    /\ pc = "bfs"
    /\ returned = <<>>
    /\ current_path = <<>>
    /\ current_state = initial_state(p)
    /\ visited_states = {initial_state(p)}
    /\ queue_of_paths = <<[state |-> initial_state(p), path |-> <<>>]>>
    /\ do_action_calls = 0

\* one pass of the while loop, lines 349-362: the successors of
\* current_state are discovered, then the front of the deque becomes current
BfsIterate ==
    /\ pc = "bfs"
    /\ BfsContinues(problem, current_state, queue_of_paths)
    /\ LET r == Discover(problem, current_state, current_path, 1,
                         queue_of_paths, visited_states) IN
       /\ current_state' = Head(r[1]).state
       /\ current_path' = Head(r[1]).path
       /\ queue_of_paths' = Tail(r[1])
       /\ visited_states' = r[2]
    /\ do_action_calls' =
           do_action_calls + Len(available_actions(problem, current_state))
    /\ UNCHANGED <<searchVars, astarVars, reasonerVars,
                   dfsVars, copyVars>>

\* line 364, reached when the loop condition fails
BfsReturn ==
    /\ pc = "bfs"
    /\ ~BfsContinues(problem, current_state, queue_of_paths)
    /\ returned' = current_path
    /\ pc' = "done"
    /\ UNCHANGED <<problem, bfsVars, astarVars, reasonerVars,
                   dfsVars, copyVars, do_action_calls>>

InitBFS ==
    /\ \E delta \in [States -> [Range(GraphActions) -> States]], goal \in GoalSets :
          BfsStart(GraphProblem(delta, goal))
    /\ astarIdle
    /\ reasonerIdle
    /\ dfsIdle
    /\ copyIdle

NextBFS ==
    \/ BfsIterate
    \/ BfsReturn

SpecBFS == InitBFS /\ [][NextBFS]_vars

-----------------------------------------------------------------------------
(* lab1: DFSAgent.dfs and dfs_recurrence *)

\* line 438: the path length beyond which dfs_recurrence gives up
DepthLimit == 100

Last(l) == l[Len(l)]

\* a call of dfs_recurrence: its for loop runs over the actions available in
\* the state on top of list_of_occured_states when the call is made
NewFrame(p, state) == [moves |-> available_actions(p, state), i |-> 1]

TopFrame == frames[Len(frames)]

\* the for loop of a call that never runs out of moves
LoopNeverDone(frame) == FALSE

\* the for loop of line 436 has no move left
LoopDone(frame) == frame.i > Len(frame.moves)

\* line 438: the state on top is a goal, or the path is too long
Cutoff(p, los, pth) == is_goal(p, Last(los)) \/ Len(pth) > DepthLimit

\* every state passes for a new one
AlwaysUnvisited(v, new_state) == TRUE

\* line 449: new_state not in visited_states
Unvisited(v, new_state) == new_state \notin v

\* the caller pops whatever state is on top
AfterCallAlwaysPop(p, los, pth) ==
    <<SubSeq(los, 1, Len(los) - 1), SubSeq(pth, 1, Len(pth) - 1)>>

\* lines 455-457, what the caller does once the recursive call has returned:
\* unless the state on top is a goal, the last action and state are popped;
\* gives <<list_of_occured_states, path>>
AfterCall(p, los, pth) ==
    IF ~is_goal(p, Last(los))
    THEN <<SubSeq(los, 1, Len(los) - 1), SubSeq(pth, 1, Len(pth) - 1)>>
    ELSE <<los, pth>>

\* lines 428-432: dfs has called dfs_recurrence
DfsStart(p) ==
    /\ problem = p
    /\ pc = "dfs"
    /\ returned = <<>>
    /\ do_action_calls = 0
    /\ list_of_occured_states = <<initial_state(p)>>
    /\ dfs_visited_states = {initial_state(p)}
    /\ dfs_path = <<>>
    /\ frames = <<NewFrame(p, initial_state(p))>>

\* A call of dfs_recurrence returns.  The first call returns to dfs, which
\* returns path (line 433); any other returns to the for loop of its caller,
\* which runs lines 455-457 and goes on to its next move.
DfsReturns ==
    IF Len(frames) = 1
    THEN /\ frames' = <<>>
         /\ returned' = dfs_path
         /\ pc' = "done"
         /\ UNCHANGED <<list_of_occured_states, dfs_path>>
    ELSE LET r == AfterCall(problem, list_of_occured_states, dfs_path)
             caller == frames[Len(frames) - 1]
         IN /\ list_of_occured_states' = r[1]
            /\ dfs_path' = r[2]
            /\ frames' = [SubSeq(frames, 1, Len(frames) - 1)
                             EXCEPT ![Len(frames) - 1] =
                                 [caller EXCEPT !.i = caller.i + 1]]
            /\ UNCHANGED <<returned, pc>>

\* lines 436-440: the loop has a move left but the state on top is a goal or
\* the path is too long; the call returns
DfsCutoff ==
    /\ pc = "dfs"
    /\ TopFrame.i \in DOMAIN TopFrame.moves
    /\ Cutoff(problem, list_of_occured_states, dfs_path)
    /\ DfsReturns
    /\ UNCHANGED <<problem, dfs_visited_states, do_action_calls, astarVars,
                   bfsVars, reasonerVars, copyVars>>

\* line 436: the for loop is over; the call returns
DfsLoopEnd ==
    /\ pc = "dfs"
    /\ LoopDone(TopFrame)
    /\ DfsReturns
    /\ UNCHANGED <<problem, dfs_visited_states, do_action_calls, astarVars,
                   bfsVars, reasonerVars, copyVars>>

\* lines 442-449: the move leads to a state visited before; next move
DfsSkip ==
    /\ pc = "dfs"
    /\ TopFrame.i \in DOMAIN TopFrame.moves
    /\ ~Cutoff(problem, list_of_occured_states, dfs_path)
    /\ LET move == TopFrame.moves[TopFrame.i]
           new_state == do_action(problem, Last(list_of_occured_states), move)
       IN /\ ~Unvisited(dfs_visited_states, new_state)
          /\ frames' = [frames EXCEPT ![Len(frames)].i = TopFrame.i + 1]
    /\ do_action_calls' = do_action_calls + 1
    /\ UNCHANGED <<searchVars, list_of_occured_states, dfs_path, dfs_visited_states,
                   astarVars, bfsVars, reasonerVars, copyVars>>

\* lines 442-453: the move leads to a new state, which goes on the path, and
\* dfs_recurrence is called for it
DfsDescend ==
    /\ pc = "dfs"
    /\ TopFrame.i \in DOMAIN TopFrame.moves
    /\ ~Cutoff(problem, list_of_occured_states, dfs_path)
    /\ LET move == TopFrame.moves[TopFrame.i]
           new_state == do_action(problem, Last(list_of_occured_states), move)
       IN /\ Unvisited(dfs_visited_states, new_state)
          /\ dfs_path' = Append(dfs_path, move)
          /\ list_of_occured_states' = Append(list_of_occured_states, new_state)
          /\ dfs_visited_states' = dfs_visited_states \cup {new_state}
          /\ frames' = Append(frames, NewFrame(problem, new_state))
    /\ do_action_calls' = do_action_calls + 1
    /\ UNCHANGED <<searchVars, astarVars, bfsVars, reasonerVars, copyVars>>

InitDFS ==
    /\ \E delta \in [States -> [Range(GraphActions) -> States]], goal \in GoalSets :
          DfsStart(GraphProblem(delta, goal))
    /\ astarIdle
    /\ bfsIdle
    /\ reasonerIdle
    /\ copyIdle

NextDFS ==
    \/ DfsCutoff
    \/ DfsLoopEnd
    \/ DfsSkip
    \/ DfsDescend

SpecDFS == InitDFS /\ [][NextDFS]_vars

\* dfs runs until it returns; nothing else is scheduled
FairSpecDFS == SpecDFS /\ WF_vars(NextDFS)

-----------------------------------------------------------------------------
(* The three engines side by side: one of them is run on its Problem *)

InitSearch ==
    \/ InitAstar
    \/ InitBFS
    \/ InitDFS

NextSearch ==
    \/ AstarReturn
    \/ AstarExpand
    \/ AstarBlock
    \/ BfsIterate
    \/ BfsReturn
    \/ DfsCutoff
    \/ DfsLoopEnd
    \/ DfsSkip
    \/ DfsDescend

SpecSearch == InitSearch /\ [][NextSearch]_vars

-----------------------------------------------------------------------------
(* lab1 and lab2: VacuumProblem, and the engines run on it *)

\* The actions, as integers in the order Python gives the strings "Left",
\* "Right" and "Suck" when the priority queue compares two paths.
Left == 1

Right == 2

Suck == 3

\* len(dirty): the number of rooms of initial_state
Rooms == 2

\* The state (robot, (dirty[0], dirty[1])) as an integer, in the order
\* Python gives the tuples (False before True).
MkState(robot, dirty) ==
    robot * 4 + (IF dirty[1] THEN 2 ELSE 0) + (IF dirty[2] THEN 1 ELSE 0)

RobotOf(state) == state \div 4

DirtyOf(state) == <<(state \div 2) % 2 = 1, state % 2 = 1>>

VacuumStates == {MkState(robot, dirty) :
                    robot \in 0 .. (Rooms - 1), dirty \in [1 .. Rooms -> BOOLEAN]}

\* a vacuum cleaner whose Suck leaves the dirt where it is
VacuumDoWithoutSuck(state, action) ==
    LET robot == RobotOf(state)
        dirty == DirtyOf(state)
    IN CASE action = Left -> MkState(Max(robot - 1, 0), dirty)
         [] action = Suck -> state
         [] action = Right -> MkState(Min(robot + 1, Len(dirty) - 1), dirty)

\* VacuumProblem.do_action; dirty[robot] of the code is dirty[robot + 1] here
VacuumDo(state, action) ==
    LET robot == RobotOf(state)
        dirty == DirtyOf(state)
    IN CASE action = Left -> MkState(Max(robot - 1, 0), dirty)
         [] action = Suck -> MkState(robot, [dirty EXCEPT ![robot + 1] = FALSE])
         [] action = Right -> MkState(Min(robot + 1, Len(dirty) - 1), dirty)

\* sum(state[1]): the number of dirty rooms
SumDirty(state) ==
    Cardinality({i \in 1 .. Rooms : DirtyOf(state)[i]})

\* the heuristic of VacuumProblem
DirtyHeuristic == [state \in VacuumStates |-> SumDirty(state)]

\* the heuristic of VacuumProblem1
CleanHeuristic == [state \in VacuumStates |-> Rooms - SumDirty(state)]

\* the heuristic of VacuumProblem2
TenDirtyHeuristic == [state \in VacuumStates |-> 10 * SumDirty(state)]

\* the heuristic that is 0 everywhere
ZeroHeuristic == [state \in VacuumStates |-> 0]

VacuumHeuristics ==
    {DirtyHeuristic, CleanHeuristic, TenDirtyHeuristic, ZeroHeuristic}

\* VacuumProblem with the given initial_state and heuristic
VacuumProblem(init, h) ==
    [initial_state |-> init,
     available_actions |-> <<Left, Suck, Right>>,
     delta |-> [state \in VacuumStates |->
                   [action \in {Left, Suck, Right} |-> VacuumDo(state, action)]],
     goal |-> {state \in VacuumStates : SumDirty(state) = 0},
     action_cost |-> [state \in VacuumStates |->
                         [action \in {Left, Suck, Right} |-> 1]],
     heuristic |-> h]

\* initial_state of VacuumProblem: (0, (True, True))
VacuumInitialState == MkState(0, <<TRUE, TRUE>>)

\* astar(VacuumProblem()), from any state of the two rooms
InitVacuumAstar ==
    /\ \E init \in VacuumStates, h \in VacuumHeuristics :
          AstarStart(VacuumProblem(init, h))
    /\ bfsIdle
    /\ dfsIdle
    /\ reasonerIdle
    /\ copyIdle

\* BFSAgent(VacuumProblem())
InitVacuumBFS ==
    /\ \E init \in VacuumStates : BfsStart(VacuumProblem(init, ZeroHeuristic))
    /\ astarIdle
    /\ dfsIdle
    /\ reasonerIdle
    /\ copyIdle

\* DFSAgent(VacuumProblem())
InitVacuumDFS ==
    /\ \E init \in VacuumStates : DfsStart(VacuumProblem(init, ZeroHeuristic))
    /\ astarIdle
    /\ bfsIdle
    /\ reasonerIdle
    /\ copyIdle

InitVacuum ==
    \/ InitVacuumAstar
    \/ InitVacuumBFS
    \/ InitVacuumDFS

\* every state of the vacuum world reaches a goal, so astar's queue never
\* runs empty here
NextVacuum ==
    \/ AstarReturn
    \/ AstarExpand
    \/ BfsIterate
    \/ BfsReturn
    \/ DfsCutoff
    \/ DfsLoopEnd
    \/ DfsSkip
    \/ DfsDescend

SpecVacuum == InitVacuum /\ [][NextVacuum]_vars

\* a run of astar that returns before its first pass
AstarRunWithoutPass(p, q, v, c) ==
    [pc |-> "done", returned |-> <<>>, count |-> c]

\* astar from the queue q, the dict v and the counter c to its end, one pass
\* of the while loop after the other (lines 168-194): where it ends, what it
\* returns and its counter
RECURSIVE AstarRun(_, _, _, _)
AstarRun(p, q, v, c) ==
    IF q = {} THEN [pc |-> "blocked", returned |-> <<>>, count |-> c]
    ELSE LET e == QueueGet(q) IN
         IF is_goal(p, e.state)
         THEN [pc |-> "done", returned |-> e.path, count |-> c]
         ELSE LET r == Expand(p, e, 1, q \ {e}, v) IN
              AstarRun(p, r[1], r[2], c + Len(available_actions(p, e.state)))

\* astar(p)
Astar(p) ==
    AstarRun(p,
             {[f |-> heuristic(p, initial_state(p)) + 0,
               state |-> initial_state(p), path |-> <<>>, g |-> 0]},
             [s \in {initial_state(p)} |-> 0],
             0)

-----------------------------------------------------------------------------
(* lab1: DFSAgent on corridors longer than its depth limit *)

\* how far beyond the depth limit the corridors reach
Margin == 3

CorridorLength == DepthLimit + Margin + 1

\* where the jump from position 0 may land, and where the goal may be
FarPositions == (DepthLimit - 1) .. (CorridorLength - 1)

\* A corridor of positions 0 .. CorridorLength - 1.  Action 1 steps one
\* position on (and stays at the far end); action 2 jumps from position 0 to
\* landing and stays put everywhere else.
LongCorridor(landing, goal) ==
    [initial_state |-> 0,
     available_actions |-> GraphActions,
     delta |-> [s \in 0 .. (CorridorLength - 1) |->
                  [a \in Range(GraphActions) |->
                      IF a = 1 THEN Min(s + 1, CorridorLength - 1)
                      ELSE IF s = 0 THEN landing ELSE s]],
     goal |-> goal,
     action_cost |-> [s \in 0 .. (CorridorLength - 1) |->
                         [a \in Range(GraphActions) |-> 1]],
     heuristic |-> [s \in 0 .. (CorridorLength - 1) |-> 0]]

InitDeepDFS ==
    /\ \E landing \in FarPositions,
          goal \in {{}} \cup {{g} : g \in FarPositions} :
          DfsStart(LongCorridor(landing, goal))
    /\ astarIdle
    /\ bfsIdle
    /\ reasonerIdle
    /\ copyIdle

SpecDeepDFS == InitDeepDFS /\ [][NextDFS]_vars

-----------------------------------------------------------------------------
(* lab10: KB *)

\* most clauses of a generated KB
MaxClauses == 5

\* An atom is a Python string: the tuple of its characters.
AtomA == <<"a">>
AtomXX == <<"x", "x">>
AtomY == <<"y">>
AtomZ == <<"z">>

Atoms == {AtomA, AtomXX, AtomY, AtomZ}

Clause(premise, conclusion) == [premise |-> premise, conclusion |-> conclusion]

\* The clauses the add calls are drawn from: a fact, a premise list that
\* repeats an atom, two clauses for one conclusion, a cyclic dependency
\* (xx <- y, y <- xx) and an atom needing two derived atoms.
ClauseChoices ==
    {Clause(<<>>, AtomA),
     Clause(<<AtomA, AtomA>>, AtomXX),
     Clause(<<AtomY>>, AtomXX),
     Clause(<<AtomA, AtomXX>>, AtomY),
     Clause(<<AtomXX, AtomY>>, AtomZ)}

\* The toy KB of lines 112-120: p->q, l&m->p, b&l->m, a&p->l, a&b->l, x->w,
\* a, b, added in this order.
AtomB == <<"b">>
AtomL == <<"l">>
AtomM == <<"m">>
AtomP == <<"p">>
AtomQ == <<"q">>
AtomW == <<"w">>
AtomX == <<"x">>

ToyClauses ==
    <<Clause(<<AtomP>>, AtomQ),
      Clause(<<AtomL, AtomM>>, AtomP),
      Clause(<<AtomB, AtomL>>, AtomM),
      Clause(<<AtomA, AtomP>>, AtomL),
      Clause(<<AtomA, AtomB>>, AtomL),
      Clause(<<AtomX>>, AtomW),
      Clause(<<>>, AtomA),
      Clause(<<>>, AtomB)>>

\* the atoms the cells of lines 341-344 and 440-443 ask about
ToyQueries == {AtomA, AtomQ, AtomW}

\* the atoms a client asks a reasoner about
Askable == IF clauses = ToyClauses THEN ToyQueries ELSE Atoms

\* an add that leaves the conclusion out of symbols
AddPremiseOnly(s, premise, conclusion) == s \cup Range(premise)

\* lines 62-63: symbols |= set(premise); symbols.add(conclusion)
AddSymbols(s, premise, conclusion) == (s \cup Range(premise)) \cup {conclusion}

\* KB.__init__
KBStart ==
    /\ clauses = <<>>
    /\ symbols = {}
    /\ pc = "kb"

\* KB.add(premise, conclusion)
KBAdd ==
    /\ pc = "kb"
    /\ Len(clauses) < MaxClauses
    /\ \E c \in ClauseChoices :
          /\ clauses' = Append(clauses, c)
          /\ symbols' = AddSymbols(symbols, c.premise, c.conclusion)
    /\ UNCHANGED <<pc, fcVars, bcVars, searchVars, astarVars, bfsVars,
                   dfsVars, copyVars, do_action_calls>>

-----------------------------------------------------------------------------
(* lab10: KB.copy.  Two KB objects, kb and kb2 = kb.copy(), each holding a  *)
(* reference to its list clauses and to its set symbols; heap maps a       *)
(* reference to the object's value, so that two KBs that share a list      *)
(* would see each other's add.                                             *)

\* most clauses either KB holds
MaxCopyClauses == 3

\* the KB object exists
Exists(k) == k.clauses # 0

\* k.clauses and k.symbols, read through the references
View(h, k) == [clauses |-> h[k.clauses], symbols |-> h[k.symbols]]

\* KB(), lines 56-58: the references of a new list and a new set
FreshKB(h) == [clauses |-> Len(h) + 1, symbols |-> Len(h) + 2]

\* a copy that holds the very list and set of the KB it was made from
SharedRefs(k, h) == k

\* line 66: result = KB()
CopyRefs(k, h) == FreshKB(h)

\* lines 60-63 on the KB k: the heap after k.add(premise, conclusion)
HeapAdd(h, k, c) ==
    LET h1 == [h EXCEPT ![k.clauses] = Append(@, c)]
    IN [h1 EXCEPT ![k.symbols] = AddSymbols(@, c.premise, c.conclusion)]

\* lines 65-69: the heap after k.copy() has filled the KB result
HeapCopy(h, k, result) ==
    LET h0 == IF result.clauses \in DOMAIN h THEN h ELSE h \o <<<<>>, {}>>
        h1 == [h0 EXCEPT ![result.clauses] = @ \o h0[k.clauses]]
    IN [h1 EXCEPT ![result.symbols] = @ \cup h1[k.symbols]]

\* kb = KB()
CopyStart ==
    /\ heap = <<<<>>, {}>>
    /\ kb = FreshKB(<<>>)
    /\ kb2 = [clauses |-> 0, symbols |-> 0]
    /\ pc = "kbs"

\* kb.add(premise, conclusion)
KbAdd ==
    /\ pc = "kbs"
    /\ Len(heap[kb.clauses]) < MaxCopyClauses
    /\ \E c \in ClauseChoices : heap' = HeapAdd(heap, kb, c)
    /\ UNCHANGED <<kb, kb2, searchVars, do_action_calls, astarVars, bfsVars,
                   dfsVars, reasonerVars>>

\* kb2 = kb.copy()
KbCopy ==
    /\ pc = "kbs"
    /\ ~Exists(kb2)
    /\ LET result == CopyRefs(kb, heap) IN
       /\ heap' = HeapCopy(heap, kb, result)
       /\ kb2' = result
    /\ UNCHANGED <<kb, searchVars, do_action_calls, astarVars, bfsVars, dfsVars,
                   reasonerVars>>

\* kb2.add(premise, conclusion)
Kb2Add ==
    /\ pc = "kbs"
    /\ Exists(kb2)
    /\ Len(heap[kb2.clauses]) < MaxCopyClauses
    /\ \E c \in ClauseChoices : heap' = HeapAdd(heap, kb2, c)
    /\ UNCHANGED <<kb, kb2, searchVars, do_action_calls, astarVars, bfsVars,
                   dfsVars, reasonerVars>>

InitCopy ==
    /\ CopyStart
    /\ problem = <<>>
    /\ returned = <<>>
    /\ do_action_calls = 0
    /\ astarIdle
    /\ bfsIdle
    /\ dfsIdle
    /\ reasonerIdle

NextCopy ==
    \/ KbAdd
    \/ KbCopy
    \/ Kb2Add

SpecCopy == InitCopy /\ [][NextCopy]_vars

-----------------------------------------------------------------------------
(* lab10: ForwardChainingReasoner *)

\* line 293: the dict count built from the clauses from the i-th on; a
\* clause that occurs again keeps its place and gets the same value
RECURSIVE CountDict(_, _, _)
CountDict(cl, i, acc) ==
    IF i > Len(cl) THEN acc
    ELSE IF \E k \in DOMAIN acc :
               acc[k].premise = cl[i].premise /\ acc[k].conclusion = cl[i].conclusion
         THEN CountDict(cl, i + 1, acc)
         ELSE CountDict(cl, i + 1,
                        Append(acc, [premise |-> cl[i].premise,
                                     conclusion |-> cl[i].conclusion,
                                     n |-> Len(cl[i].premise)]))

\* line 295: the conclusions of the clauses without premises, in KB order
RECURSIVE Facts(_, _)
Facts(cl, i) ==
    IF i > Len(cl) THEN <<>>
    ELSE IF cl[i].premise = <<>>
         THEN <<cl[i].conclusion>> \o Facts(cl, i + 1)
         ELSE Facts(cl, i + 1)

\* a test that looks at the first atom of the premise only
InPremiseFirst(p, premise) == premise # <<>> /\ premise[1] = p

\* line 304: p in clause[0]
InPremise(p, premise) == p \in Range(premise)

\* line 308: the clause's conclusion goes on the agenda
Fires(n, conclusion, was) == n = 0 /\ conclusion \notin was

\* the for loop of lines 303-311 for the popped symbol p from the i-th key
\* of count on; gives the final <<count, was_in_agenda, agenda>>
RECURSIVE Propagate(_, _, _, _, _)
Propagate(p, i, cnt, was, ag) ==
    IF i > Len(cnt) THEN <<cnt, was, ag>>
    ELSE IF ~InPremise(p, cnt[i].premise)
         THEN Propagate(p, i + 1, cnt, was, ag)
         ELSE LET n == cnt[i].n - 1
                  cnt1 == [cnt EXCEPT ![i].n = n]
              IN IF Fires(n, cnt[i].conclusion, was)
                 THEN Propagate(p, i + 1, cnt1, was \cup {cnt[i].conclusion},
                                Append(ag, cnt[i].conclusion))
                 ELSE Propagate(p, i + 1, cnt1, was, ag)

\* ForwardChainingReasoner(kb): __init__ enters _infer, lines 293-296
FCStart ==
    /\ pc = "kb"
    /\ clause_count' = CountDict(clauses, 1, <<>>)
    /\ infer_inferred' = [s \in symbols |-> FALSE]
    /\ agenda' = Facts(clauses, 1)
    /\ was_in_agenda' = Range(Facts(clauses, 1))
    /\ pc' = "fc_infer"
    /\ UNCHANGED <<fc_inferred, kbVars, bcVars, problem, returned, astarVars, bfsVars,
                   dfsVars, copyVars, do_action_calls>>

\* one pass of the while loop of _infer, lines 298-311
FCPop ==
    /\ pc = "fc_infer"
    /\ agenda # <<>>
    /\ LET p == agenda[Len(agenda)]
           r == Propagate(p, 1, clause_count, was_in_agenda,
                          SubSeq(agenda, 1, Len(agenda) - 1))
       IN /\ infer_inferred' = [infer_inferred EXCEPT ![p] = TRUE]
          /\ clause_count' = r[1]
          /\ was_in_agenda' = r[2]
          /\ agenda' = r[3]
    /\ UNCHANGED <<pc, fc_inferred, kbVars, bcVars, problem, returned, astarVars, bfsVars,
                   dfsVars, copyVars, do_action_calls>>

\* the agenda is empty: _infer returns (line 315) and __init__ keeps the set
\* (line 287)
FCFinish ==
    /\ pc = "fc_infer"
    /\ agenda = <<>>
    /\ fc_inferred' = {s \in DOMAIN infer_inferred : infer_inferred[s]}
    /\ pc' = "fc_ready"
    /\ UNCHANGED <<clause_count, infer_inferred, agenda, was_in_agenda, kbVars,
                   bcVars, problem, returned, astarVars, bfsVars,
                   dfsVars, copyVars, do_action_calls>>

\* ForwardChainingReasoner.query
FCQuery(symbol) == symbol \in fc_inferred

-----------------------------------------------------------------------------
(* lab10: BackwardChainingReasoner *)

\* set(symbol): the characters of the string, each a one-character string
CharSet(symbol) == {<<symbol[i]>> : i \in DOMAIN symbol}

\* symbol in self.inferred and self.inferred[symbol] != None
Cached(inf, symbol) == symbol \in DOMAIN inf /\ inf[symbol] # "None"

\* the next clause from index i on that concludes symbol (Len + 1: none)
NextClause(cl, symbol, i) ==
    IF \E k \in i .. Len(cl) : cl[k].conclusion = symbol
    THEN CHOOSE k \in i .. Len(cl) :
            /\ cl[k].conclusion = symbol
            /\ \A j \in i .. (k - 1) : cl[j].conclusion # symbol
    ELSE Len(cl) + 1

\* a call of recursive_query(symbol, to_check) that has not run yet
Frame(symbol) == [symbol |-> symbol, clause |-> 0, premise |-> 1]

Top == stack[Len(stack)]

Pop(st) == SubSeq(st, 1, Len(st) - 1)

SetTop(st, frame) == [st EXCEPT ![Len(st)] = frame]

\* lines 410-414: the result is memoized and the symbol leaves to_check
Memoize(inf, symbol, value) == [inf EXCEPT ![symbol] = value]

\* BackwardChainingReasoner(kb): lines 368-372
BCInit ==
    /\ pc = "fc_ready"
    /\ bc_inferred' =
          [s \in symbols |->
              IF \E k \in DOMAIN clauses :
                    clauses[k].premise = <<>> /\ clauses[k].conclusion = s
              THEN "True" ELSE "None"]
    /\ pc' = "bc_ready"
    /\ UNCHANGED <<to_check, stack, ret, asked, answer, fresh, kbVars, fcVars,
                   problem, returned, astarVars, bfsVars,
                   dfsVars, copyVars, do_action_calls>>

\* query(symbol), lines 375-376: the answer is in the cache
BCQueryCached ==
    /\ pc = "bc_ready"
    /\ \E symbol \in Askable :
          /\ Cached(bc_inferred, symbol)
          /\ asked' = symbol
          /\ answer' = bc_inferred[symbol]
    /\ fresh' = (asked = <<>>)
    /\ UNCHANGED <<pc, bc_inferred, to_check, stack, ret, kbVars, fcVars,
                   problem, returned, astarVars, bfsVars,
                   dfsVars, copyVars, do_action_calls>>

\* query(symbol), lines 377-378: the KB does not mention the symbol
BCQueryUnknown ==
    /\ pc = "bc_ready"
    /\ \E symbol \in Askable :
          /\ ~Cached(bc_inferred, symbol)
          /\ symbol \notin symbols
          /\ asked' = symbol
    /\ answer' = "False"
    /\ fresh' = (asked = <<>>)
    /\ UNCHANGED <<pc, bc_inferred, to_check, stack, ret, kbVars, fcVars,
                   problem, returned, astarVars, bfsVars,
                   dfsVars, copyVars, do_action_calls>>

\* query(symbol), line 380: recursive_query(symbol, set(symbol)) is called
BCQueryStart ==
    /\ pc = "bc_ready"
    /\ \E symbol \in Askable :
          /\ ~Cached(bc_inferred, symbol)
          /\ symbol \in symbols
          /\ asked' = symbol
          /\ to_check' = CharSet(symbol)
          /\ stack' = <<Frame(symbol)>>
    /\ answer' = "None"
    /\ ret' = "None"
    /\ fresh' = (asked = <<>>)
    /\ pc' = "bc_query"
    /\ UNCHANGED <<bc_inferred, kbVars, fcVars, problem, returned, astarVars, bfsVars,
                   dfsVars, copyVars, do_action_calls>>

\* recursive_query, lines 384-388: the symbol's value is already known
BCHit ==
    /\ pc = "bc_query" /\ ret = "None" /\ stack # <<>>
    /\ Top.clause = 0
    /\ Cached(bc_inferred, Top.symbol)
    /\ to_check' = to_check \ {Top.symbol}
    /\ ret' = bc_inferred[Top.symbol]
    /\ stack' = Pop(stack)
    /\ UNCHANGED <<pc, bc_inferred, asked, answer, fresh, kbVars, fcVars,
                   problem, returned, astarVars, bfsVars,
                   dfsVars, copyVars, do_action_calls>>

\* recursive_query, lines 390-391: the loop over the symbol's clauses begins
BCMiss ==
    /\ pc = "bc_query" /\ ret = "None" /\ stack # <<>>
    /\ Top.clause = 0
    /\ ~Cached(bc_inferred, Top.symbol)
    /\ stack' = SetTop(stack, [Top EXCEPT !.clause = NextClause(clauses, Top.symbol, 1),
                                          !.premise = 1])
    /\ UNCHANGED <<pc, bc_inferred, to_check, ret, asked, answer, fresh, kbVars,
                   fcVars, problem, returned, astarVars, bfsVars,
                   dfsVars, copyVars, do_action_calls>>

\* the premise the top frame looks at
AtPremise ==
    /\ pc = "bc_query" /\ ret = "None" /\ stack # <<>>
    /\ Top.clause \in 1 .. Len(clauses)
    /\ Top.premise <= Len(clauses[Top.clause].premise)

TopPremise == clauses[Top.clause].premise[Top.premise]

\* lines 396-399: the premise is waiting in to_check, the clause is given up
BCGuard ==
    /\ AtPremise
    /\ TopPremise \in to_check
    /\ stack' = SetTop(stack, [Top EXCEPT
                                 !.clause = NextClause(clauses, Top.symbol, Top.clause + 1),
                                 !.premise = 1])
    /\ UNCHANGED <<pc, bc_inferred, to_check, ret, asked, answer, fresh, kbVars,
                   fcVars, problem, returned, astarVars, bfsVars,
                   dfsVars, copyVars, do_action_calls>>

\* lines 400-401: the premise joins to_check and is queried recursively
BCCall ==
    /\ AtPremise
    /\ TopPremise \notin to_check
    /\ to_check' = to_check \cup {TopPremise}
    /\ stack' = Append(stack, Frame(TopPremise))
    /\ UNCHANGED <<pc, bc_inferred, ret, asked, answer, fresh, kbVars, fcVars,
                   problem, returned, astarVars, bfsVars,
                   dfsVars, copyVars, do_action_calls>>

\* a caller that takes the premise as met whatever the call returned
AfterReturnIgnoringValue(cl, frame, value) ==
    [frame EXCEPT !.premise = frame.premise + 1]

\* lines 401-404: the frame of the caller once the recursive call has
\* returned: a False gives the clause up, a True moves on to the next premise
AfterReturn(cl, frame, value) ==
    IF value = "False"
    THEN [frame EXCEPT !.clause = NextClause(cl, frame.symbol, frame.clause + 1),
                       !.premise = 1]
    ELSE [frame EXCEPT !.premise = frame.premise + 1]

\* lines 401-404: the recursive call has returned
BCResume ==
    /\ pc = "bc_query" /\ ret # "None" /\ stack # <<>>
    /\ stack' = SetTop(stack, AfterReturn(clauses, Top, ret))
    /\ ret' = "None"
    /\ UNCHANGED <<pc, bc_inferred, to_check, asked, answer, fresh, kbVars,
                   fcVars, problem, returned, astarVars, bfsVars,
                   dfsVars, copyVars, do_action_calls>>

\* lines 405-414: every premise of the clause was met
BCClauseMet ==
    /\ pc = "bc_query" /\ ret = "None" /\ stack # <<>>
    /\ Top.clause \in 1 .. Len(clauses)
    /\ Top.premise > Len(clauses[Top.clause].premise)
    /\ bc_inferred' = Memoize(bc_inferred, Top.symbol, "True")
    /\ to_check' = to_check \ {Top.symbol}
    /\ ret' = "True"
    /\ stack' = Pop(stack)
    /\ UNCHANGED <<pc, asked, answer, fresh, kbVars, fcVars, problem, returned,
                   astarVars, bfsVars,
                   dfsVars, copyVars, do_action_calls>>

\* lines 410-414: no clause of the symbol was met
BCExhausted ==
    /\ pc = "bc_query" /\ ret = "None" /\ stack # <<>>
    /\ Top.clause = Len(clauses) + 1
    /\ bc_inferred' = Memoize(bc_inferred, Top.symbol, "False")
    /\ to_check' = to_check \ {Top.symbol}
    /\ ret' = "False"
    /\ stack' = Pop(stack)
    /\ UNCHANGED <<pc, asked, answer, fresh, kbVars, fcVars, problem, returned,
                   astarVars, bfsVars,
                   dfsVars, copyVars, do_action_calls>>

\* line 380: query returns what the outermost recursive_query returned
BCAnswer ==
    /\ pc = "bc_query" /\ ret # "None" /\ stack = <<>>
    /\ answer' = ret
    /\ ret' = "None"
    /\ pc' = "bc_ready"
    /\ UNCHANGED <<bc_inferred, to_check, stack, asked, fresh, kbVars, fcVars,
                   problem, returned, astarVars, bfsVars,
                   dfsVars, copyVars, do_action_calls>>

InitKB ==
    /\ KBStart
    /\ fcIdle
    /\ bcIdle
    /\ searchIdle
    /\ astarIdle
    /\ bfsIdle
    /\ dfsIdle
    /\ copyIdle

NextKB ==
    \/ KBAdd
    \/ FCStart
    \/ FCPop
    \/ FCFinish
    \/ BCInit
    \/ BCQueryCached
    \/ BCQueryUnknown
    \/ BCQueryStart
    \/ BCHit
    \/ BCMiss
    \/ BCGuard
    \/ BCCall
    \/ BCResume
    \/ BCClauseMet
    \/ BCExhausted
    \/ BCAnswer

SpecKB == InitKB /\ [][NextKB]_vars

-----------------------------------------------------------------------------
(* lab10: the reasoners on the toy KB *)

\* symbols after the clauses cl[i], cl[i+1], ... have been added to a KB
\* whose symbols were s
RECURSIVE AddAll(_, _, _)
AddAll(cl, i, s) ==
    IF i > Len(cl) THEN s
    ELSE AddAll(cl, i + 1, AddSymbols(s, cl[i].premise, cl[i].conclusion))

\* kb after the eight add calls of lines 112-120
ToyStart ==
    /\ clauses = ToyClauses
    /\ symbols = AddAll(ToyClauses, 1, {})
    /\ pc = "kb"

InitToy ==
    /\ ToyStart
    /\ fcIdle
    /\ bcIdle
    /\ searchIdle
    /\ astarIdle
    /\ bfsIdle
    /\ dfsIdle
    /\ copyIdle

\* the KB grows no more, and it mentions every atom that is asked about
NextToy ==
    \/ FCStart
    \/ FCPop
    \/ FCFinish
    \/ BCInit
    \/ BCQueryCached
    \/ BCQueryStart
    \/ BCHit
    \/ BCMiss
    \/ BCGuard
    \/ BCCall
    \/ BCResume
    \/ BCClauseMet
    \/ BCExhausted
    \/ BCAnswer

SpecToy == InitToy /\ [][NextToy]_vars

-----------------------------------------------------------------------------
(* What a plan does, and what the best plan costs *)

StatesOf(p) == DOMAIN p.delta

\* the state a plan ends in when applied action by action from state s
RECURSIVE ApplyPlan(_, _, _)
ApplyPlan(p, s, plan) ==
    IF plan = <<>> THEN s
    ELSE ApplyPlan(p, do_action(p, s, Head(plan)), Tail(plan))

\* the sum of action_cost over a plan applied from state s
RECURSIVE PlanCost(_, _, _)
PlanCost(p, s, plan) ==
    IF plan = <<>> THEN 0
    ELSE action_cost(p, s, Head(plan))
             + PlanCost(p, do_action(p, s, Head(plan)), Tail(plan))

PlanReachesGoal(p, plan) == is_goal(p, ApplyPlan(p, initial_state(p), plan))

\* more than any plan without a repeated state costs
Infinity == NumStates * MaxCost + 1

SetMin(S) == CHOOSE x \in S : \A y \in S : x <= y

\* the least cost of reaching a goal from each state with at most k actions
RECURSIVE CostWithin(_, _)
CostWithin(p, k) ==
    IF k = 0 THEN [s \in StatesOf(p) |-> IF is_goal(p, s) THEN 0 ELSE Infinity]
    ELSE LET prev == CostWithin(p, k - 1) IN
         [s \in StatesOf(p) |->
            SetMin({prev[s]} \cup
                   {Min(Infinity, action_cost(p, s, a) + prev[do_action(p, s, a)]) :
                        a \in Range(available_actions(p, s))})]

\* the least cost of reaching a goal from each state (Infinity: no plan)
CostToGoal(p) == CostWithin(p, Cardinality(StatesOf(p)))

\* the least number of actions to a goal with at most k actions
RECURSIVE StepsWithin(_, _)
StepsWithin(p, k) ==
    IF k = 0 THEN [s \in StatesOf(p) |-> IF is_goal(p, s) THEN 0 ELSE Infinity]
    ELSE LET prev == StepsWithin(p, k - 1) IN
         [s \in StatesOf(p) |->
            SetMin({prev[s]} \cup
                   {Min(Infinity, 1 + prev[do_action(p, s, a)]) :
                        a \in Range(available_actions(p, s))})]

StepsToGoal(p) == StepsWithin(p, Cardinality(StatesOf(p)))

GoalReachable(p) == StepsToGoal(p)[initial_state(p)] < Infinity

\* the heuristic never exceeds the true remaining cost
Admissible(p) ==
    \A s \in StatesOf(p) : heuristic(p, s) <= CostToGoal(p)[s]

\* h(s) <= c(s, a) + h(s') for every action, and h is 0 at a goal
Consistent(p) ==
    /\ \A s \in StatesOf(p) : is_goal(p, s) => heuristic(p, s) = 0
    /\ \A s \in StatesOf(p) : \A a \in Range(available_actions(p, s)) :
          heuristic(p, s) <= action_cost(p, s, a) + heuristic(p, do_action(p, s, a))

-----------------------------------------------------------------------------
(* Claims about astar *)

\* C1: with nonnegative costs and a nonnegative, admissible and consistent
\* heuristic, and a goal reachable, the plan astar returns costs exactly the
\* least total cost of any plan to a goal.
C1_AstarOptimal ==
    (pc = "done" /\ Admissible(problem) /\ Consistent(problem)
        /\ GoalReachable(problem))
    => PlanCost(problem, initial_state(problem), returned)
           = CostToGoal(problem)[initial_state(problem)]

\* C10: on a Problem whose reachable states hold no goal, astar does not
\* wait on the exhausted frontier: it is never blocked in queue.get().
C10_AstarReturnsNone ==
    ~GoalReachable(problem) => pc # "blocked"

\* C9: whatever the (nonnegative) heuristic, admissible or not, if a goal
\* is reachable astar terminates and the plan it returns, applied from
\* initial_state, ends in a goal state.
C9_AstarComplete ==
    GoalReachable(problem)
    => <>(pc = "done" /\ PlanReachesGoal(problem, returned))

\* astar has returned a plan of at least one action under a heuristic that
\* overestimates the remaining cost somewhere
C9_Witness ==
    /\ pc = "done"
    /\ ~Admissible(problem)
    /\ returned # <<>>
    /\ PlanReachesGoal(problem, returned)

-----------------------------------------------------------------------------
(* Claims about BFSAgent.bfs *)

\* C2: when a goal is reachable, the plan bfs returns has as many actions as
\* the shortest action sequence from initial_state to a goal state.
C2_BfsShortest ==
    (pc = "done" /\ GoalReachable(problem))
    => Len(returned) = StepsToGoal(problem)[initial_state(problem)]

\* C3: when a goal is reachable, applying the plan bfs returns action by
\* action from initial_state ends in a goal state.
C3_BfsReachesGoal ==
    (pc = "done" /\ GoalReachable(problem))
    => PlanReachesGoal(problem, returned)

\* C11: on a Problem whose reachable states hold no goal, what bfs returns
\* is not an action sequence that ends in a non-goal state: whatever bfs hands
\* back as a plan ends, applied from initial_state, in a goal state.
C11_BfsReportsFailure ==
    (pc = "done" /\ ~GoalReachable(problem))
    => PlanReachesGoal(problem, returned)

-----------------------------------------------------------------------------
(* Claims about DFSAgent.dfs *)

\* C12: on every Problem with finitely many reachable states, with a goal
\* reachable or not, dfs returns.
C12_DfsTerminates == <>(pc = "done")

\* dfs has returned on a Problem without a reachable goal after trying
\* every action of every state
C12_Witness ==
    /\ pc = "done"
    /\ ~GoalReachable(problem)
    /\ dfs_visited_states = States
    /\ do_action_calls = NumStates * Len(GraphActions)

\* C13: a non-empty plan dfs returns ends, applied action by action from
\* initial_state, in a goal state; and once a goal state is on top of
\* list_of_occured_states no step of the unwinding recursion changes path or
\* the stack of states.
C13_DfsPlanReachesGoal ==
    /\ []((pc = "done" /\ returned # <<>>) => PlanReachesGoal(problem, returned))
    /\ [][(pc = "dfs" /\ is_goal(problem, Last(list_of_occured_states)))
            => (dfs_path' = dfs_path
                /\ list_of_occured_states' = list_of_occured_states)]_vars

\* dfs has returned a plan that it found after backing out of a dead end
C13_Witness ==
    /\ pc = "done"
    /\ returned # <<>>
    /\ PlanReachesGoal(problem, returned)
    /\ Cardinality(dfs_visited_states) > Len(returned) + 1

\* C14: list_of_occured_states never holds a state twice.
C14_DfsPathSimple ==
    \A i, j \in DOMAIN list_of_occured_states :
        list_of_occured_states[i] = list_of_occured_states[j] => i = j

\* every state is on the current path, and dfs has met a visited state
C14_Witness ==
    /\ pc = "dfs"
    /\ Len(list_of_occured_states) = NumStates
    /\ do_action_calls >= NumStates

\* C15: when no goal can be reached, what dfs returns differs from the empty
\* plan, which is what it returns when initial_state is a goal.
C15_DfsReportsNoSolution ==
    (pc = "done" /\ ~GoalReachable(problem)) => returned # <<>>

-----------------------------------------------------------------------------
(* Claims about the three engines *)

\* C16: when initial_state is a goal state, bfs, dfs and astar each return
\* the empty plan and have not called do_action.
C16_GoalAtStart ==
    (pc = "done" /\ is_goal(problem, initial_state(problem)))
    => (returned = <<>> /\ do_action_calls = 0)

\* bfs has returned on a Problem whose initial_state is a goal, with the
\* initial entry still in its deque
C16_Witness ==
    /\ pc = "done"
    /\ is_goal(problem, initial_state(problem))
    /\ queue_of_paths # <<>>
    /\ visited_states = {initial_state(problem)}

-----------------------------------------------------------------------------
(* Claims about the reasoners *)

\* kb and kb2 as their clients see them
KbView == View(heap, kb)

Kb2View == View(heap, kb2)

\* a KB after add(c.premise, c.conclusion), by the contract of add
Added(view, c) ==
    [clauses |-> Append(view.clauses, c),
     symbols |-> view.symbols \cup Range(c.premise) \cup {c.conclusion}]

\* C17: kb2 = kb.copy() holds the clauses and symbols of kb and leaves kb as
\* it was; after it every add changes the KB it is called on, by the new
\* clause and its atoms, and leaves the other KB's clauses and symbols alone.
C17_CopyIndependent ==
    [][/\ (~Exists(kb2) /\ Exists(kb2'))
          => (Kb2View' = KbView /\ KbView' = KbView)
       /\ (Exists(kb2) /\ Exists(kb2'))
          => \/ /\ KbView' = KbView
                /\ \E c \in ClauseChoices : Kb2View' = Added(Kb2View, c)
             \/ /\ Kb2View' = Kb2View
                /\ \E c \in ClauseChoices : KbView' = Added(KbView, c)]_vars

\* kb and kb2 share their first clause and have each had adds of their own
\* since the copy
C17_Witness ==
    /\ Exists(kb2)
    /\ Len(KbView.clauses) = MaxCopyClauses
    /\ Len(Kb2View.clauses) = MaxCopyClauses
    /\ KbView.clauses[1] = Kb2View.clauses[1]
    /\ KbView.clauses[2] # Kb2View.clauses[2]
    /\ KbView.symbols # Kb2View.symbols

\* the atoms that occur in a list of clauses
SymbolsOf(cl) ==
    UNION {Range(cl[i].premise) \cup {cl[i].conclusion} : i \in DOMAIN cl}

\* C18: after any adds and copy, the symbols of every KB are exactly the
\* atoms that occur as a premise atom or a conclusion in its clauses.
C18_SymbolsExact ==
    /\ KbView.symbols = SymbolsOf(KbView.clauses)
    /\ Exists(kb2) => Kb2View.symbols = SymbolsOf(Kb2View.clauses)

\* the copy has had an add that brought it an atom kb does not hold
C18_Witness ==
    /\ Exists(kb2)
    /\ KbView.clauses # <<>>
    /\ Kb2View.symbols \ KbView.symbols # {}
    /\ Cardinality(Kb2View.symbols) >= 3

\* what one round of applying every clause adds to the set m of atoms
RECURSIVE Closure(_, _)
Closure(cl, m) ==
    LET m2 == m \cup {cl[k].conclusion :
                        k \in {j \in DOMAIN cl : Range(cl[j].premise) \subseteq m}}
    IN IF m2 = m THEN m ELSE Closure(cl, m2)

\* the least model of a KB: the facts and the conclusions of the clauses
\* whose premise atoms are all in it
LeastModel(cl) == Closure(cl, {})

\* a query has returned, and it was the first one put to the reasoner
FirstAnswer == pc = "bc_ready" /\ asked # <<>> /\ fresh

\* C4: for any KB built by add calls and any atom, a freshly constructed
\* ForwardChainingReasoner and a freshly constructed BackwardChainingReasoner
\* return the same value for query.
C4_ReasonersAgree ==
    FirstAnswer => ((answer = "True") <=> FCQuery(asked))

\* C5: every atom ForwardChainingReasoner.query reports True is in the least
\* model of the KB.
C5_ForwardSound ==
    \A symbol \in Atoms : FCQuery(symbol) => symbol \in LeastModel(clauses)

\* C6: every atom of the least model of the KB is reported True by
\* ForwardChainingReasoner.query.
C6_ForwardComplete ==
    pc \in {"fc_ready", "bc_ready", "bc_query"}
    => \A symbol \in LeastModel(clauses) : FCQuery(symbol)

\* C7: for every atom of the least model, query on a freshly constructed
\* BackwardChainingReasoner returns True.
C7_BackwardComplete ==
    (FirstAnswer /\ asked \in LeastModel(clauses)) => answer = "True"

\* C8: through any sequence of queries on one BackwardChainingReasoner, every
\* atom query returns True for, and every atom memoized True in
\* self.inferred, is in the least model of the KB.
C8_BackwardSound ==
    /\ \A symbol \in DOMAIN bc_inferred :
          bc_inferred[symbol] = "True" => symbol \in LeastModel(clauses)
    /\ (pc = "bc_ready" /\ answer = "True") => asked \in LeastModel(clauses)

\* a query that was not the first on its reasoner has returned True for an
\* atom that is not a fact, on a reasoner that also holds a memoized False
C8_Witness ==
    /\ pc = "bc_ready" /\ ~fresh /\ answer = "True"
    /\ asked \notin Range(Facts(clauses, 1))
    /\ \E symbol \in DOMAIN bc_inferred : bc_inferred[symbol] = "False"

\* C19: recursive_query is never running for one atom twice at a time, and
\* no more calls of it are running than the KB has symbols.
C19_NoReentry ==
    /\ \A i, j \in DOMAIN stack : stack[i].symbol = stack[j].symbol => i = j
    /\ Len(stack) <= Cardinality(symbols)

\* C20: on the toy KB both reasoners answer True for a, True for q and
\* False for w, in whatever order and however often the three are asked.
C20_ToyAnswers ==
    /\ pc \in {"fc_ready", "bc_ready", "bc_query"}
       => (FCQuery(AtomA) /\ FCQuery(AtomQ) /\ ~FCQuery(AtomW))
    /\ (pc = "bc_ready" /\ asked # <<>>)
       => answer = (IF asked = AtomW THEN "False" ELSE "True")

\* q has been answered on a reasoner that was asked w before
C20_Witness ==
    /\ clauses = ToyClauses
    /\ pc = "bc_ready"
    /\ asked = AtomQ
    /\ answer = "True"
    /\ ~fresh
    /\ bc_inferred[AtomW] = "False"

-----------------------------------------------------------------------------
(* Claims about the vacuum world *)

\* the Problem is the vacuum world of the notebooks: robot in room 0, both
\* rooms dirty
VacuumScenario == initial_state(problem) = VacuumInitialState

\* C21: on the two-room vacuum world, robot in room 0 and both rooms dirty,
\* the plan each of bfs, dfs and astar returns ends, applied from the initial
\* state, in a state where both rooms are clean.
C21_VacuumPlans ==
    (pc = "done" /\ VacuumScenario)
    => SumDirty(ApplyPlan(problem, initial_state(problem), returned)) = 0

\* dfs has returned Suck, Right, Suck on the vacuum world
C21_Witness ==
    /\ pc = "done"
    /\ VacuumScenario
    /\ dfs_visited_states # {}
    /\ returned = <<Suck, Right, Suck>>

\* C22: on that vacuum world astar's counter, when astar returns under the
\* heuristic 'number of dirty rooms', is at most the counter astar returns
\* with under the heuristic that is 0 everywhere.
C22_InformedExpandsLess ==
    (pc = "done" /\ problem = VacuumProblem(VacuumInitialState, DirtyHeuristic))
    => count <= Astar(VacuumProblem(VacuumInitialState, ZeroHeuristic)).count

\* astar has returned on the vacuum world under the heuristic 'number of
\* dirty rooms' after expanding three states, and the run under the zero
\* heuristic expands more
C22_Witness ==
    /\ pc = "done"
    /\ problem = VacuumProblem(VacuumInitialState, DirtyHeuristic)
    /\ count = 3 * Len(available_actions(problem, VacuumInitialState))
    /\ Astar(VacuumProblem(VacuumInitialState, ZeroHeuristic)).count > count

-----------------------------------------------------------------------------
(* Claims about astar's frontier *)

\* C23: every entry (f, state, path, g) on astar's queue has g the cost of
\* path from initial_state and f = g + heuristic(state).
C23_FrontierKey ==
    \A e \in queue :
        /\ e.g = PlanCost(problem, initial_state(problem), e.path)
        /\ e.f = e.g + heuristic(problem, e.state)

\* C24: in a pass of astar's loop that expands the popped entry, an entry is
\* pushed only for a state that was not recorded or with a path cost below
\* the recorded one, every action leading to such a state gets its state
\* pushed, the value recorded for a pushed state is the lowest path cost
\* pushed for it, and the other records stay as they were.
C24_Relaxation ==
    [][(pc = "astar" /\ queue # {} /\ ~is_goal(problem, QueueGet(queue).state))
        => LET e == QueueGet(queue)
               recorded == visited_states_with_dist_from_start
               pushed == queue' \ (queue \ {e})
               PushedFor(s) == {n \in pushed : n.state = s}
           IN /\ \A n \in pushed :
                    \/ n.state \notin DOMAIN recorded
                    \/ n.g < recorded[n.state]
              /\ \A action \in Range(available_actions(problem, e.state)) :
                    LET next_state == do_action(problem, e.state, action)
                        new_cumulative_costs ==
                            e.g + action_cost(problem, e.state, action)
                    IN (\/ next_state \notin DOMAIN recorded
                        \/ new_cumulative_costs < recorded[next_state])
                       => PushedFor(next_state) # {}
              /\ \A s \in DOMAIN visited_states_with_dist_from_start' :
                    IF PushedFor(s) # {}
                    THEN visited_states_with_dist_from_start'[s] =
                             SetMin({n.g : n \in PushedFor(s)})
                    ELSE /\ s \in DOMAIN recorded
                         /\ visited_states_with_dist_from_start'[s] = recorded[s]
      ]_vars

-----------------------------------------------------------------------------
(* Claims about DFSAgent.dfs, its visited set and its depth limit *)

\* C25: while dfs runs, visited_states is the set of the states on the
\* current path.
C25_VisitedIsPath ==
    pc = "dfs" => dfs_visited_states = Range(list_of_occured_states)

\* the states of S and the states one action leads to from them
OneMore(p, S) ==
    S \cup UNION {{do_action(p, s, a) : a \in Range(available_actions(p, s))} :
                     s \in S}

\* the states that at most k actions lead to from the states of S: at most
\* k \div 2 actions to a state on the way, then the remaining ones
RECURSIVE ReachWithin(_, _, _)
ReachWithin(p, S, k) ==
    IF k = 0 THEN S
    ELSE IF k = 1 THEN OneMore(p, S)
    ELSE UNION {ReachWithin(p, Mid, k - (k \div 2)) :
                   Mid \in {ReachWithin(p, S, k \div 2)}}

\* the state a plan ends in, the plan applied half by half: the state the
\* first half ends in is where the second half starts
RECURSIVE ApplyLongPlan(_, _, _)
ApplyLongPlan(p, s, plan) ==
    IF Len(plan) <= 1 THEN ApplyPlan(p, s, plan)
    ELSE LET h == Len(plan) \div 2 IN
         CHOOSE end \in {ApplyLongPlan(p, mid, SubSeq(plan, h + 1, Len(plan))) :
                            mid \in {ApplyLongPlan(p, s, SubSeq(plan, 1, h))}} : TRUE

\* C26: when a goal state can be reached by at most DepthLimit actions, the
\* plan dfs returns ends, applied from initial_state, in a goal state.
C26_DfsFindsNearGoal ==
    (pc = "done"
        /\ \E s \in ReachWithin(problem, {initial_state(problem)}, DepthLimit) :
              is_goal(problem, s))
    => is_goal(problem, ApplyLongPlan(problem, initial_state(problem), returned))

\* C27: the current path of dfs never holds more than DepthLimit actions.
C27_DepthBounded == Len(dfs_path) <= DepthLimit

-----------------------------------------------------------------------------
(* Claims about the queue of bfs *)

\* the states of the entries of a deque
QueuedStates(q) == {q[i].state : i \in DOMAIN q}

\* C28: bfs starts with initial_state queued and visited; no two entries of
\* its deque hold the same state and every queued state is in visited_states;
\* a pass of the loop appends one entry for each state it adds to
\* visited_states and for no other state.
C28_EnqueuedOnce ==
    /\ visited_states = QueuedStates(queue_of_paths)
    /\ [](/\ \A i, j \in DOMAIN queue_of_paths :
                queue_of_paths[i].state = queue_of_paths[j].state => i = j
          /\ QueuedStates(queue_of_paths) \subseteq visited_states)
    /\ [][pc = "bfs" /\ pc' = "bfs"
            => /\ QueuedStates(queue_of_paths') \ QueuedStates(queue_of_paths)
                     = visited_states' \ visited_states
               /\ Len(queue_of_paths') =
                     Len(queue_of_paths) - 1
                         + Cardinality(visited_states' \ visited_states)]_vars

\* bfs has run two passes over a graph whose states are all visited, and the
\* deque still holds an entry
C28_Witness ==
    /\ pc = "bfs"
    /\ queue_of_paths # <<>>
    /\ visited_states = States
    /\ do_action_calls >= 2 * Len(GraphActions)

-----------------------------------------------------------------------------
(* Claims about _infer and the memo of BackwardChainingReasoner *)

\* C29: in _infer no count is below zero and a count is zero only when every
\* premise atom of its clause has been inferred; the atom a pass of the loop
\* pops from the agenda has not been processed by an earlier pass.
C29_CountsExact ==
    /\ [](\A i \in DOMAIN clause_count :
             /\ clause_count[i].n >= 0
             /\ clause_count[i].n = 0
                => \A atom \in Range(clause_count[i].premise) : infer_inferred[atom])
    /\ [][(pc = "fc_infer" /\ agenda # <<>>)
            => ~infer_inferred[agenda[Len(agenda)]]]_vars

\* self.inferred of a new BackwardChainingReasoner: lines 370-372
NewMemo(cl, syms) ==
    [s \in syms |->
        IF \E k \in DOMAIN cl : cl[k].premise = <<>> /\ cl[k].conclusion = s
        THEN "True" ELSE "None"]

\* recursive_query as a function of the memo and to_check it is called with:
\* the value it returns and the memo and to_check it leaves behind.
\* QueryClauses is the loop of lines 391-408 from the clause of index k on,
\* QueryPremises the loop of lines 394-404 from the j-th premise on.
RECURSIVE RecursiveQuery(_, _, _, _)
RECURSIVE QueryClauses(_, _, _, _, _)
RECURSIVE QueryPremises(_, _, _, _, _)
RecursiveQuery(cl, symbol, inf, tc) ==
    IF Cached(inf, symbol)
    THEN [value |-> inf[symbol], inferred |-> inf, to_check |-> tc \ {symbol}]
    ELSE LET r == QueryClauses(cl, symbol, NextClause(cl, symbol, 1), inf, tc)
         IN [value |-> r.value,
             inferred |-> Memoize(r.inferred, symbol, r.value),
             to_check |-> r.to_check \ {symbol}]

QueryClauses(cl, symbol, k, inf, tc) ==
    IF k > Len(cl)
    THEN [value |-> "False", inferred |-> inf, to_check |-> tc]
    ELSE LET r == QueryPremises(cl, cl[k].premise, 1, inf, tc)
         IN IF r.value = "True" THEN r
            ELSE QueryClauses(cl, symbol, NextClause(cl, symbol, k + 1),
                              r.inferred, r.to_check)

QueryPremises(cl, premise, j, inf, tc) ==
    IF j > Len(premise)
    THEN [value |-> "True", inferred |-> inf, to_check |-> tc]
    ELSE IF premise[j] \in tc
         THEN [value |-> "False", inferred |-> inf, to_check |-> tc]
         ELSE LET r == RecursiveQuery(cl, premise[j], inf, tc \cup {premise[j]})
              IN IF r.value = "False" THEN r
                 ELSE QueryPremises(cl, premise, j + 1, r.inferred, r.to_check)

\* BackwardChainingReasoner(kb).query(symbol) on a new reasoner: lines 374-380
FreshQuery(cl, syms, symbol) ==
    IF Cached(NewMemo(cl, syms), symbol) THEN NewMemo(cl, syms)[symbol]
    ELSE IF symbol \notin syms THEN "False"
    ELSE RecursiveQuery(cl, symbol, NewMemo(cl, syms), CharSet(symbol)).value

\* C30: whatever was asked of a BackwardChainingReasoner before, query
\* returns what it returns on a new reasoner over the same KB, and every
\* value memoized in self.inferred is the atom's entailment status: True for
\* the atoms of the least model and False for the others.
C30_MemoIsFinal ==
    /\ (pc = "bc_ready" /\ asked # <<>>)
       => answer = FreshQuery(clauses, symbols, asked)
    /\ \A symbol \in DOMAIN bc_inferred :
          /\ bc_inferred[symbol] = "True" => symbol \in LeastModel(clauses)
          /\ bc_inferred[symbol] = "False" => symbol \notin LeastModel(clauses)

=============================================================================
